---- MODULE Spec2Model ----
(***************************************************************************)
(* Model of src/main.py: the Docker Swarm autoscaling helpers               *)
(* get_service_labels, can_autoscale, scale_service, scale_service_linear. *)
(*                                                                         *)
(* The Docker service is the environment state (exists, labels, replicas,  *)
(* apiDown).  Every call of client.services.get / service_obj.update is    *)
(* one atomic step of the calling process; the Python code between two     *)
(* such calls is part of the step that precedes it.                        *)
(*                                                                         *)
(* Label values are Python strings, modelled as sequences of one-character *)
(* strings so that int() can be computed on them.                          *)
(***************************************************************************)
EXTENDS Integers, Sequences, FiniteSets, TLC

VARIABLES exists, labels, replicas, apiDown, proc, hist

vars == <<exists, labels, replicas, apiDown, proc, hist>>

(* ---- bounds ---- *)
MaxReplicas == 3

Procs == {"c1", "c2"}
SeqProcs == {"c1"}

(* ---- Python values ---- *)
None == <<"None">>

S_true == <<"t", "r", "u", "e">>
S_True == <<"T", "r", "u", "e">>
S_1 == <<"1">>
S_empty == <<>>
S_abc == <<"a", "b", "c">>
S_2 == <<"2">>
S_0 == <<"0">>
S_sp1 == <<" ", "1">>

KeyEnabled == "swarm.autoscaler"
KeyMaximum == "swarm.autoscaler.maximum"

EnabledVals == {None, S_true, S_True, S_1, S_empty}
MaximumVals == {None, S_empty, S_abc, S_2, S_0, S_sp1}

MkLabels(a, m) ==
    [k \in (IF a = None THEN {} ELSE {KeyEnabled}) \cup
           (IF m = None THEN {} ELSE {KeyMaximum})
       |-> IF k = KeyEnabled THEN a ELSE m]

LabelMaps == {MkLabels(a, m) : a \in EnabledVals, m \in MaximumVals}

(* dict.get(key): the value, or None when the key is absent *)
dict_get(d, k) == IF k \in DOMAIN d THEN d[k] ELSE None

(* ---- int(str) ---- *)
DigitChars == {"0", "1", "2", "3", "4", "5", "6", "7", "8", "9"}
SpaceChars == {" ", "\t", "\n"}

DigitVal(c) ==
    CASE c = "0" -> 0 [] c = "1" -> 1 [] c = "2" -> 2 [] c = "3" -> 3
      [] c = "4" -> 4 [] c = "5" -> 5 [] c = "6" -> 6 [] c = "7" -> 7
      [] c = "8" -> 8 [] c = "9" -> 9 [] OTHER -> 0

RECURSIVE LStrip(_)
LStrip(s) == IF s # <<>> /\ Head(s) \in SpaceChars THEN LStrip(Tail(s)) ELSE s

RECURSIVE RStrip(_)
RStrip(s) ==
    IF s # <<>> /\ s[Len(s)] \in SpaceChars
    THEN RStrip(SubSeq(s, 1, Len(s) - 1)) ELSE s

Strip(s) == RStrip(LStrip(s))

Unsigned(s) == IF s # <<>> /\ Head(s) \in {"+", "-"} THEN Tail(s) ELSE s

(* digits, single underscores allowed between digits *)
ValidDigits(s) ==
    /\ Len(s) > 0
    /\ \A i \in 1..Len(s) : s[i] \in DigitChars \cup {"_"}
    /\ s[1] # "_"
    /\ s[Len(s)] # "_"
    /\ \A i \in 1..(Len(s) - 1) : ~(s[i] = "_" /\ s[i + 1] = "_")

RECURSIVE DigitsValue(_, _)
DigitsValue(s, acc) ==
    IF s = <<>> THEN acc
    ELSE IF Head(s) = "_" THEN DigitsValue(Tail(s), acc)
    ELSE DigitsValue(Tail(s), 10 * acc + DigitVal(Head(s)))

(* int(s) does not raise ValueError *)
int_ok(s) == ValidDigits(Unsigned(Strip(s)))

(* int(s), for s with int_ok(s) *)
int_val(s) ==
    LET t == Strip(s)
        v == DigitsValue(Unsigned(t), 0)
    IN IF t # <<>> /\ Head(t) = "-" THEN 0 - v ELSE v

(* ---- outcomes ---- *)
ErrNoService == "ValueError: Service name not provided"
ErrNoReplicas == "ValueError: Number of replicas not provided"
ErrNoAction == "ValueError: Scaling action not provided"
ErrBadAction == "ValueError: Invalid scaling action"
ErrBadMax == "ValueError: Invalid value for maximum allowed replicas"
ErrNotFound == "docker.errors.NotFound"
ErrAPI == "docker.errors.APIError"

ValueErrors == {ErrNoService, ErrNoReplicas, ErrNoAction, ErrBadAction, ErrBadMax}
InvalidInput == {ErrNoService, ErrNoReplicas, ErrNoAction, ErrBadAction}
PortErrors == {ErrNotFound, ErrAPI}
Exceptions == ValueErrors \cup PortErrors

(* ---- Python truthiness of the validated arguments ---- *)
(* `not service` for a str, main.py:46,76,126,165 *)
NoService(s) == s = ""

(* `replicas is None` instead of `not replicas`: an int is never rejected *)
NoReplicasNoneOnly(n) == FALSE

(* `not replicas` for an int, main.py:129 *)
NoReplicas(n) == n = 0

(* `not action` for a str, main.py:167 *)
NoAction(a) == a = ""

(* `max_replicas is None` instead of `not max_replicas` *)
NoMaximumNoneOnly(v) == v = None

(* `not max_replicas` for the value of labels.get(...), main.py:86 *)
NoMaximum(v) == v = None \/ v = <<>>

(* ---- can_autoscale: the decisions ---- *)
(* a truthy or case-insensitive reading of the flag *)
EnabledLoose(l) == dict_get(l, KeyEnabled) \in {S_true, S_True, S_1}

(* labels.get('swarm.autoscaler') == 'true', main.py:83 *)
Enabled(l) == dict_get(l, KeyEnabled) = S_true

(* an inclusive bound *)
PermittedInclusive(c, m) == c <= m

(* current_replicas < max_replicas, main.py:100 *)
Permitted(c, m) == c < m

(* the ValueError of int() swallowed: an unparsable bound is no bound *)
LabelsDecisionLenient(l) ==
    IF dict_get(l, KeyEnabled) = S_true
    THEN IF dict_get(l, KeyMaximum) = None \/ dict_get(l, KeyMaximum) = <<>> THEN "True"
         ELSE IF ~int_ok(dict_get(l, KeyMaximum)) THEN "True"
         ELSE "check"
    ELSE "False"

(* the maximum is parsed but the replica count is never compared with it *)
LabelsDecisionNoBound(l) ==
    IF dict_get(l, KeyEnabled) = S_true
    THEN IF dict_get(l, KeyMaximum) = None \/ dict_get(l, KeyMaximum) = <<>> THEN "True"
         ELSE IF ~int_ok(dict_get(l, KeyMaximum)) THEN ErrBadMax
         ELSE "True"
    ELSE "False"

(* main.py:83-93,105-106: what can_autoscale decides from the labels alone:
   "False", "True", the ValueError of line 93, or "check" when the replica
   count has to be read and compared (lines 96-104) *)
LabelsDecision(l) ==
    IF Enabled(l)
    THEN IF NoMaximum(dict_get(l, KeyMaximum)) THEN "True"
         ELSE IF ~int_ok(dict_get(l, KeyMaximum)) THEN ErrBadMax
         ELSE "check"
    ELSE "False"

(* both branches add one *)
new_replicas_always_up(current_replicas, action) == current_replicas + 1

(* ---- scale_service_linear: the computed target, main.py:175-178 ---- *)
new_replicas(current_replicas, action) ==
    IF action = "up" THEN current_replicas + 1 ELSE current_replicas - 1

(* the count is added to the current one instead of replacing it *)
with_replicas_add(current, n) == current + n

(* ---- the write, main.py:138 ---- *)
(* service_obj.mode.with_replicas(replicas): the replica count of the new mode *)
with_replicas(current, n) == n

(* service_obj.update(...): the exception the orchestrator answers with, or
   "none".  A removed service is a 404 (NotFound); a negative count does not
   fit the API's unsigned replica field and is rejected like any failing
   update (APIError). *)
update_error(ex, down, n) ==
    IF ~ex THEN ErrNotFound
    ELSE IF down \/ n < 0 THEN ErrAPI
    ELSE "none"

(* the update issued before the permission check *)
DeniedReplicasWritten(current, n) == n

(* the else branch of scale_service (main.py:141-143) only logs: the replica
   count after a denied call *)
DeniedReplicas(current, n) == current

(* ---- except clauses: what is raised on, and what is logged ---- *)
(* main.py:55-57 *)
get_service_labels_except(exc) ==
    IF exc = ErrNotFound THEN [outcome |-> exc, logs |-> {"error"}]
    ELSE [outcome |-> exc, logs |-> {}]

(* main.py:107-112 *)
can_autoscale_except(exc) ==
    IF exc = ErrNotFound \/ exc \in ValueErrors
    THEN [outcome |-> exc, logs |-> {"error"}]
    ELSE [outcome |-> exc, logs |-> {}]

(* NotFound logged and swallowed: the call returns as if denied *)
scale_service_except_swallow(exc) ==
    IF exc = ErrNotFound THEN [outcome |-> "denied", logs |-> {"warning"}]
    ELSE IF exc \in PortErrors \/ exc \in ValueErrors
    THEN [outcome |-> exc, logs |-> {"error"}]
    ELSE [outcome |-> exc, logs |-> {}]

(* main.py:144-152 *)
scale_service_except(exc) ==
    IF exc \in PortErrors \/ exc \in ValueErrors
    THEN [outcome |-> exc, logs |-> {"error"}]
    ELSE [outcome |-> exc, logs |-> {}]

(* main.py:184-192 *)
scale_service_linear_except(exc) ==
    IF exc \in PortErrors \/ exc \in ValueErrors
    THEN [outcome |-> exc, logs |-> {"error"}]
    ELSE [outcome |-> exc, logs |-> {}]

(* the try block a call of operation op reaches outermost *)
OpLevel(op) ==
    CASE op = "can_autoscale" -> 1
      [] op = "scale_service" -> 2
      [] op = "scale_service_linear" -> 3
      [] OTHER -> 0

Pass(out) == [outcome |-> out, logs |-> {}]

(* An exception raised inside the try block of level
   0 get_service_labels, 1 can_autoscale, 2 scale_service,
   3 scale_service_linear (4: outside every try block)
   passes through the except clauses of the enclosing calls. *)
Propagate(op, level, exc) ==
    LET h0 == IF level <= 0 THEN get_service_labels_except(exc) ELSE Pass(exc)
        h1 == IF level <= 1 /\ h0.outcome \in Exceptions
              THEN can_autoscale_except(h0.outcome) ELSE Pass(h0.outcome)
        h2 == IF level <= 2 /\ OpLevel(op) >= 2 /\ h1.outcome \in Exceptions
              THEN scale_service_except(h1.outcome) ELSE Pass(h1.outcome)
        h3 == IF level <= 3 /\ OpLevel(op) >= 3 /\ h2.outcome \in Exceptions
              THEN scale_service_linear_except(h2.outcome) ELSE Pass(h2.outcome)
    IN [outcome |-> h3.outcome,
        logs |-> h0.logs \cup h1.logs \cup h2.logs \cup h3.logs]

(* ---- the state of one call ---- *)
New(op, service, n, action) ==
    [pc |-> "idle", op |-> op, service |-> service, replicas |-> n,
     action |-> action, max_replicas |-> 0, current_replicas |-> 0,
     outcome |-> "none",
     reads |-> 0, writes |-> <<>>, wrote |-> FALSE, logs |-> {},
     portErr |-> "none"]

Idle0 == New("none", "", 0, "")

(* the call ends by raising exc from the try block of the given level,
   after logging lg *)
Raise(r, level, exc, lg) ==
    LET h == Propagate(r.op, level, exc)
    IN [r EXCEPT !.pc = "idle", !.outcome = h.outcome, !.max_replicas = 0,
                 !.logs = @ \cup lg \cup h.logs]

(* the orchestrator client raised exc *)
RaisePort(r, level, exc) == Raise([r EXCEPT !.portErr = exc], level, exc, {})

(* the call ends by returning *)
Return(r, out, lg) ==
    [r EXCEPT !.pc = "idle", !.outcome = out, !.max_replicas = 0,
              !.logs = @ \cup lg]

(* can_autoscale returns val: main.py:134,141-143 in scale_service *)
CanReturns(r, val, lg) ==
    IF r.op = "can_autoscale"
    THEN Return(r, IF val THEN "True" ELSE "False", lg)
    ELSE IF val
    THEN [r EXCEPT !.pc = "get_service", !.max_replicas = 0, !.logs = @ \cup lg]
    ELSE Return(r, "denied", lg \cup {"warning"})

(* scale_service(service, n) up to its first I/O, main.py:126-134 *)
EnterScaleService(r, n) ==
    LET r1 == [r EXCEPT !.replicas = n]
    IN IF NoService(r1.service) THEN Raise(r1, 3, ErrNoService, {"error"})
       ELSE IF NoReplicas(n) THEN Raise(r1, 3, ErrNoReplicas, {"error"})
       ELSE [r1 EXCEPT !.pc = "get_labels"]

(* ---- arguments the callers pass ---- *)
Services == {"", "web"}
Targets == (0 - 1)..MaxReplicas
Actions == {"", "up", "down", "sideways"}

NoCall == [op |-> "none", service |-> "", replicas |-> 0, action |-> "",
           outcome |-> "none", before |-> 0]

Hist0 == [before |-> 0, labels |-> MkLabels(None, None), prev |-> NoCall,
          raced |-> FALSE]

TypeOK ==
    /\ exists \in BOOLEAN
    /\ apiDown \in BOOLEAN
    /\ labels \in LabelMaps
    /\ replicas \in 0..MaxReplicas
    /\ \A p \in Procs :
         /\ proc[p].pc \in {"idle", "linear_get", "get_labels", "get_replicas",
                            "get_service", "update"}
         /\ proc[p].outcome \in {"none", "True", "False", "scaled", "denied"}
                                  \cup Exceptions

Init ==
    /\ exists \in BOOLEAN
    /\ apiDown \in BOOLEAN
    /\ labels \in LabelMaps
    /\ replicas \in 0..MaxReplicas
    /\ proc = [p \in Procs |-> Idle0]
    /\ hist = Hist0

(* ---- can_autoscale(service), main.py:76-77 ---- *)
CallCanAutoscale(p, s) ==
    /\ proc[p].pc = "idle"
    /\ LET r == New("can_autoscale", s, 0, "")
       IN proc' = [proc EXCEPT ![p] =
                     IF NoService(s) THEN Raise(r, 4, ErrNoService, {})
                     ELSE [r EXCEPT !.pc = "get_labels"]]
    /\ UNCHANGED <<exists, labels, replicas, apiDown>>

(* ---- scale_service(service, replicas), main.py:126-134 ---- *)
CallScaleService(p, s, n) ==
    /\ proc[p].pc = "idle"
    /\ proc' = [proc EXCEPT ![p] =
                  EnterScaleService(New("scale_service", s, n, ""), n)]
    /\ UNCHANGED <<exists, labels, replicas, apiDown>>

(* ---- scale_service_linear(service, action), main.py:165-168 ---- *)
CallScaleServiceLinear(p, s, a) ==
    /\ proc[p].pc = "idle"
    /\ a = "up" => replicas < MaxReplicas
    /\ LET r == New("scale_service_linear", s, 0, a)
       IN proc' = [proc EXCEPT ![p] =
                     IF NoService(s) THEN Raise(r, 4, ErrNoService, {})
                     ELSE IF NoAction(a) THEN Raise(r, 4, ErrNoAction, {})
                     ELSE [r EXCEPT !.pc = "linear_get"]]
    /\ UNCHANGED <<exists, labels, replicas, apiDown>>

(* ---- scale_service_linear: main.py:171-183 ---- *)
LinearGet(p) ==
    /\ proc[p].pc = "linear_get"
    /\ proc[p].action = "up" => replicas < MaxReplicas
    /\ LET r == [proc[p] EXCEPT !.reads = @ + 1,
                                !.current_replicas = IF exists THEN replicas ELSE 0]
       IN proc' = [proc EXCEPT ![p] =
                     IF ~exists THEN RaisePort(r, 3, ErrNotFound)
                     ELSE IF r.action \notin {"up", "down"}
                     THEN Raise(r, 3, ErrBadAction, {})
                     ELSE EnterScaleService(r, new_replicas(replicas, r.action))]
    /\ UNCHANGED <<exists, labels, replicas, apiDown>>

(* ---- can_autoscale: get_service_labels and lines 83-93, 105-106 ---- *)
GetLabels(p) ==
    /\ proc[p].pc = "get_labels"
    /\ LET r == [proc[p] EXCEPT !.reads = @ + 1]
           d == LabelsDecision(labels)
           r2 == IF ~exists THEN RaisePort(r, 0, ErrNotFound)
                 ELSE IF d = "False" THEN CanReturns(r, FALSE, {})
                 ELSE IF d = "True" THEN CanReturns(r, TRUE, {})
                 ELSE IF d = "check"
                 THEN [r EXCEPT !.pc = "get_replicas",
                                !.max_replicas = int_val(dict_get(labels, KeyMaximum))]
                 ELSE Raise(r, 1, d, {})
       IN /\ proc' = [proc EXCEPT ![p] = r2]
          /\ replicas' = IF r2.outcome = "denied"
                         THEN DeniedReplicas(replicas, r2.replicas)
                         ELSE replicas
    /\ UNCHANGED <<exists, labels, apiDown>>

(* the bound compared with the requested target instead of the current count *)
GetReplicasOnTarget(p) ==
    /\ proc[p].pc = "get_replicas"
    /\ LET r == [proc[p] EXCEPT !.reads = @ + 1]
           r2 == IF ~exists THEN RaisePort(r, 1, ErrNotFound)
                 ELSE IF r.replicas < r.max_replicas
                 THEN CanReturns(r, TRUE, {})
                 ELSE CanReturns(r, FALSE, {"error"})
       IN proc' = [proc EXCEPT ![p] = r2]
    /\ UNCHANGED <<exists, labels, replicas, apiDown>>

(* ---- can_autoscale: main.py:96-104 ---- *)
GetReplicas(p) ==
    /\ proc[p].pc = "get_replicas"
    /\ LET r == [proc[p] EXCEPT !.reads = @ + 1]
           r2 == IF ~exists THEN RaisePort(r, 1, ErrNotFound)
                 ELSE IF Permitted(replicas, r.max_replicas)
                 THEN CanReturns(r, TRUE, {})
                 ELSE CanReturns(r, FALSE, {"error"})
       IN /\ proc' = [proc EXCEPT ![p] = r2]
          /\ replicas' = IF r2.outcome = "denied"
                         THEN DeniedReplicas(replicas, r2.replicas)
                         ELSE replicas
    /\ UNCHANGED <<exists, labels, apiDown>>

(* ---- scale_service: main.py:136 ---- *)
GetService(p) ==
    /\ proc[p].pc = "get_service"
    /\ LET r == [proc[p] EXCEPT !.reads = @ + 1]
       IN proc' = [proc EXCEPT ![p] =
                     IF ~exists THEN RaisePort(r, 2, ErrNotFound)
                     ELSE [r EXCEPT !.pc = "update"]]
    /\ UNCHANGED <<exists, labels, replicas, apiDown>>

(* the target recomputed from the replica count at the time of the write *)
UpdateFresh(p) ==
    /\ proc[p].pc = "update"
    /\ LET n == IF proc[p].op = "scale_service_linear"
                THEN replicas + (proc[p].replicas - proc[p].current_replicas)
                ELSE proc[p].replicas
           r == [proc[p] EXCEPT !.writes = Append(@, n)]
           e == update_error(exists, apiDown, n)
       IN IF e # "none"
          THEN /\ proc' = [proc EXCEPT ![p] = RaisePort(r, 2, e)]
               /\ UNCHANGED replicas
          ELSE /\ proc' = [proc EXCEPT ![p] =
                             Return([r EXCEPT !.wrote = TRUE], "scaled", {"info"})]
               /\ replicas' = n
    /\ UNCHANGED <<exists, labels, apiDown>>

(* ---- scale_service: main.py:138-140 ---- *)
Update(p) ==
    /\ proc[p].pc = "update"
    /\ LET r == [proc[p] EXCEPT !.writes = Append(@, proc[p].replicas)]
           e == update_error(exists, apiDown, r.replicas)
       IN IF e # "none"
          THEN /\ proc' = [proc EXCEPT ![p] = RaisePort(r, 2, e)]
               /\ UNCHANGED replicas
          ELSE /\ proc' = [proc EXCEPT ![p] =
                             Return([r EXCEPT !.wrote = TRUE], "scaled", {"info"})]
               /\ replicas' = with_replicas(replicas, r.replicas)
    /\ UNCHANGED <<exists, labels, apiDown>>

(* ---- the orchestrator's other clients ---- *)
ExternalRemove ==
    /\ exists
    /\ exists' = FALSE
    /\ UNCHANGED <<labels, replicas, apiDown, proc>>

ExternalCreate ==
    /\ ~exists
    /\ exists' = TRUE
    /\ UNCHANGED <<labels, replicas, apiDown, proc>>

ExternalSetReplicas(n) ==
    /\ exists
    /\ n # replicas
    /\ replicas' = n
    /\ UNCHANGED <<exists, labels, apiDown, proc>>

(* one label is set, changed or removed *)
ExternalSetLabels(l) ==
    /\ exists
    /\ l # labels
    /\ \/ dict_get(l, KeyEnabled) = dict_get(labels, KeyEnabled)
       \/ dict_get(l, KeyMaximum) = dict_get(labels, KeyMaximum)
    /\ labels' = l
    /\ UNCHANGED <<exists, replicas, apiDown, proc>>

ApiFails ==
    /\ ~apiDown
    /\ apiDown' = TRUE
    /\ UNCHANGED <<exists, labels, replicas, proc>>

ApiRecovers ==
    /\ apiDown
    /\ apiDown' = FALSE
    /\ UNCHANGED <<exists, labels, replicas, proc>>

(* ---- one caller, one call at a time, no other client ---- *)
Summary(r, before) ==
    [op |-> r.op, service |-> r.service, replicas |-> r.replicas,
     action |-> r.action, outcome |-> r.outcome, before |-> before]

(* a call begins: the state it starts from, and the call that ended before it *)
Began(p) ==
    hist' = [before |-> replicas, labels |-> labels,
             prev |-> Summary(proc[p], hist.before), raced |-> FALSE]

SeqNext ==
    \/ \E p \in SeqProcs, s \in Services : CallCanAutoscale(p, s) /\ Began(p)
    \/ \E p \in SeqProcs, s \in Services, n \in Targets :
          CallScaleService(p, s, n) /\ Began(p)
    \/ \E p \in SeqProcs, s \in Services, a \in Actions :
          CallScaleServiceLinear(p, s, a) /\ Began(p)
    \/ \E p \in SeqProcs : LinearGet(p) /\ UNCHANGED hist
    \/ \E p \in SeqProcs : GetLabels(p) /\ UNCHANGED hist
    \/ \E p \in SeqProcs : GetReplicas(p) /\ UNCHANGED hist
    \/ \E p \in SeqProcs : GetService(p) /\ UNCHANGED hist
    \/ \E p \in SeqProcs : Update(p) /\ UNCHANGED hist

SeqSpec == Init /\ [][SeqNext]_vars

(* ---- one caller, interleaved with the orchestrator's other clients ---- *)
Next ==
    \/ \E p \in SeqProcs, s \in Services : CallCanAutoscale(p, s) /\ UNCHANGED hist
    \/ \E p \in SeqProcs, s \in Services, n \in Targets :
          CallScaleService(p, s, n) /\ UNCHANGED hist
    \/ \E p \in SeqProcs, s \in Services, a \in Actions :
          CallScaleServiceLinear(p, s, a) /\ UNCHANGED hist
    \/ \E p \in SeqProcs : LinearGet(p) /\ UNCHANGED hist
    \/ \E p \in SeqProcs : GetLabels(p) /\ UNCHANGED hist
    \/ \E p \in SeqProcs : GetReplicas(p) /\ UNCHANGED hist
    \/ \E p \in SeqProcs : GetService(p) /\ UNCHANGED hist
    \/ \E p \in SeqProcs : Update(p) /\ UNCHANGED hist
    \/ ExternalRemove /\ UNCHANGED hist
    \/ ExternalCreate /\ UNCHANGED hist
    \/ \E n \in 0..MaxReplicas : ExternalSetReplicas(n) /\ UNCHANGED hist
    \/ \E l \in LabelMaps : ExternalSetLabels(l) /\ UNCHANGED hist
    \/ ApiFails /\ UNCHANGED hist
    \/ ApiRecovers /\ UNCHANGED hist

Spec == Init /\ [][Next]_vars

(* ---- callers of scale_service_linear only, no other client ---- *)
ConcInit ==
    /\ exists \in BOOLEAN
    /\ apiDown \in BOOLEAN
    /\ labels \in LabelMaps
    /\ replicas \in 0..MaxReplicas
    /\ proc = [p \in Procs |-> Idle0]
    /\ hist = [Hist0 EXCEPT !.before = replicas, !.labels = labels]

(* the call has read the replica count (main.py:172) and not yet ended *)
InWindow(r) ==
    /\ r.op = "scale_service_linear"
    /\ r.pc \in {"get_labels", "get_replicas", "get_service", "update"}

(* the update of p took effect between another call's read and its write *)
Landed(p) ==
    hist' = [hist EXCEPT !.raced =
               @ \/ (proc'[p].wrote /\ \E q \in Procs \ {p} : InWindow(proc[q]))]

StepCalls(P) ==
    \/ \E p \in P, s \in Services, a \in Actions :
          CallScaleServiceLinear(p, s, a) /\ UNCHANGED hist
    \/ \E p \in P : LinearGet(p) /\ UNCHANGED hist
    \/ \E p \in P : GetLabels(p) /\ UNCHANGED hist
    \/ \E p \in P : GetReplicas(p) /\ UNCHANGED hist
    \/ \E p \in P : GetService(p) /\ UNCHANGED hist
    \/ \E p \in P : Update(p) /\ Landed(p)

(* the calls interleave at every read and write *)
ConcNext == StepCalls(Procs)

ConcSpec == ConcInit /\ [][ConcNext]_vars

(* one call at a time *)
StepNext == StepCalls(SeqProcs)

StepSpec == ConcInit /\ [][StepNext]_vars

(* ======================= the claims ======================= *)
Done(r) == r.pc = "idle" /\ r.outcome # "none"

FlagIsTrue == dict_get(labels, KeyEnabled) = S_true
MaxLabel == dict_get(labels, KeyMaximum)
MaxAbsentOrEmpty == MaxLabel = None \/ MaxLabel = <<>>
OnWeb(r) == exists /\ r.service = "web"
IsScale(r) == r.op \in {"scale_service", "scale_service_linear"}

(* C1: a scale_service or scale_service_linear call issues at most one
   update, and a call that ends in a denial or in a ValueError (invalid
   input, unparsable maximum) issued none and leaves the replica count and
   the labels as they were when it began. *)
C1_FrameEffect ==
    \A p \in Procs :
        LET r == proc[p]
        IN /\ Len(r.writes) <= 1
           /\ (Done(r) /\ IsScale(r) /\ r.outcome \in {"denied"} \cup ValueErrors)
                 => /\ r.writes = <<>>
                    /\ replicas = hist.before
                    /\ labels = hist.labels

C1_Witness ==
    \E p \in Procs :
        /\ Done(proc[p]) /\ proc[p].op = "scale_service"
        /\ proc[p].outcome = "denied"
        /\ proc[p].replicas # replicas

(* C2: when swarm.autoscaler is absent or is not exactly "true", whatever
   swarm.autoscaler.maximum is, can_autoscale on an existing service returns
   False without raising, and scale_service / scale_service_linear never
   issue an update. *)
C2_DisabledNeverWrites ==
    \A p \in Procs :
        LET r == proc[p]
        IN (~FlagIsTrue /\ OnWeb(r))
              => /\ (Done(r) /\ r.op = "can_autoscale") => r.outcome = "False"
                 /\ IsScale(r) => (r.writes = <<>> /\ ~r.wrote)

C2_Witness ==
    \E p \in Procs :
        /\ Done(proc[p]) /\ OnWeb(proc[p])
        /\ proc[p].op = "can_autoscale" /\ proc[p].outcome = "False"
        /\ dict_get(labels, KeyEnabled) = S_True
        /\ MaxLabel = S_abc

(* C3: for an enabled service whose maximum parses to the integer m and
   current replica count c, can_autoscale returns True when c < m and False
   when c >= m, and does not raise. *)
C3_BoundIsExclusive ==
    \A p \in Procs :
        LET r == proc[p]
        IN (Done(r) /\ r.op = "can_autoscale" /\ OnWeb(r) /\ FlagIsTrue
              /\ ~MaxAbsentOrEmpty /\ int_ok(MaxLabel))
              => r.outcome = (IF replicas < int_val(MaxLabel) THEN "True" ELSE "False")

C3_Witness ==
    \E p \in Procs :
        /\ Done(proc[p]) /\ proc[p].op = "can_autoscale" /\ OnWeb(proc[p])
        /\ FlagIsTrue /\ MaxLabel = S_2 /\ replicas = 2
        /\ proc[p].outcome = "False"

BadMaximum == FlagIsTrue /\ ~MaxAbsentOrEmpty /\ ~int_ok(MaxLabel)

(* C4 as stated: for an enabled service whose maximum is a non-empty
   non-integer string, can_autoscale, scale_service with a non-zero target
   and every scale_service_linear up/down end by raising the policy-parse
   ValueError, and no update is issued. *)
C4_Original ==
    \A p \in Procs :
        LET r == proc[p]
        IN (Done(r) /\ OnWeb(r) /\ BadMaximum
              /\ \/ r.op = "can_autoscale"
                 \/ r.op = "scale_service" /\ r.replicas # 0
                 \/ r.op = "scale_service_linear" /\ r.action \in {"up", "down"})
              => (r.outcome = ErrBadMax /\ r.writes = <<>>)

(* C4 amended: the same, for scale_service_linear only when the computed
   target (current + 1 or current - 1) is non-zero. *)
C4_ParseErrorRaised ==
    \A p \in Procs :
        LET r == proc[p]
        IN (Done(r) /\ OnWeb(r) /\ BadMaximum
              /\ \/ r.op = "can_autoscale"
                 \/ r.op = "scale_service" /\ r.replicas # 0
                 \/ /\ r.op = "scale_service_linear" /\ r.action \in {"up", "down"}
                    /\ r.replicas # 0)
              => (r.outcome = ErrBadMax /\ r.writes = <<>>)

C4_Witness ==
    \E p \in Procs :
        /\ Done(proc[p]) /\ OnWeb(proc[p]) /\ MaxLabel = S_abc /\ FlagIsTrue
        /\ proc[p].op = "scale_service_linear" /\ proc[p].action = "up"
        /\ proc[p].outcome = ErrBadMax

(* C5: every invalid-input ValueError (empty service, zero target, empty or
   invalid action) is raised before the call has read from or written to the
   orchestrator. *)
C5_InvalidInputBeforeIO ==
    \A p \in Procs :
        (Done(proc[p]) /\ proc[p].outcome \in InvalidInput)
            => (proc[p].reads = 0 /\ proc[p].writes = <<>>)

(* C6: no call passes a negative replica count to the update. *)
C6_NoNegativeWrite ==
    \A p \in Procs :
        \A i \in 1..Len(proc[p].writes) : proc[p].writes[i] >= 0

PolicyPermits(c) ==
    FlagIsTrue /\ (MaxAbsentOrEmpty \/ (int_ok(MaxLabel) /\ c < int_val(MaxLabel)))

UpThenDown(r) ==
    /\ Done(r) /\ OnWeb(r)
    /\ r.op = "scale_service_linear" /\ r.action = "down"
    /\ hist.prev.op = "scale_service_linear" /\ hist.prev.action = "up"
    /\ hist.prev.service = "web"
    /\ PolicyPermits(hist.prev.before) /\ PolicyPermits(hist.before)

(* C7 as stated: for every initial count c >= 0, scale_service_linear "up"
   followed by "down", both permitted by the policy, ends at c. *)
C7_Original ==
    \A p \in Procs : UpThenDown(proc[p]) => replicas = hist.prev.before

(* C7 amended: the same for every initial count c >= 1. *)
C7_UpDownRoundTrip ==
    \A p \in Procs :
        (UpThenDown(proc[p]) /\ hist.prev.before >= 1) => replicas = hist.prev.before

C7_Witness ==
    \E p \in Procs :
        /\ UpThenDown(proc[p]) /\ hist.prev.before >= 1
        /\ hist.prev.outcome = "scaled" /\ proc[p].outcome = "scaled"
        /\ hist.before = hist.prev.before + 1

(* C8: a scale_service call that repeats the previous call's service and
   target leaves the replica count as the previous call left it. *)
C8_ScaleIdempotent ==
    \A p \in Procs :
        LET r == proc[p]
        IN (Done(r) /\ r.op = "scale_service" /\ hist.prev.op = "scale_service"
              /\ hist.prev.service = r.service /\ hist.prev.replicas = r.replicas)
              => replicas = hist.before

C8_Witness ==
    \E p \in Procs :
        LET r == proc[p]
        IN /\ Done(r) /\ r.op = "scale_service" /\ hist.prev.op = "scale_service"
           /\ hist.prev.service = r.service /\ hist.prev.replicas = r.replicas
           /\ hist.prev.outcome = "scaled" /\ hist.prev.before # r.replicas
           /\ r.outcome = "scaled"

(* C9: when the orchestrator client raises (NotFound on a read, NotFound or
   APIError on the update), the call ends there with that same exception,
   and it has not changed the replica count. *)
C9_PortErrorPropagates ==
    \A p \in Procs :
        LET r == proc[p]
        IN r.portErr # "none"
              => (Done(r) /\ r.outcome = r.portErr /\ ~r.wrote /\ Len(r.writes) <= 1)

C9_Witness ==
    \E p \in Procs :
        /\ proc[p].portErr = ErrNotFound /\ proc[p].reads >= 2
        /\ proc[p].outcome = ErrNotFound

(* C10: for an enabled service whose maximum is absent or empty,
   can_autoscale returns True for every replica count, every scale_service
   with a non-zero target issues its update, and so does every
   scale_service_linear whose computed target is non-zero. *)
C10_Unbounded ==
    \A p \in Procs :
        LET r == proc[p]
        IN (Done(r) /\ OnWeb(r) /\ FlagIsTrue /\ MaxAbsentOrEmpty)
              => /\ r.op = "can_autoscale" => r.outcome = "True"
                 /\ (r.op = "scale_service" /\ r.replicas # 0)
                       => r.writes = <<r.replicas>>
                 /\ (r.op = "scale_service_linear" /\ r.action \in {"up", "down"}
                       /\ r.replicas # 0)
                       => /\ r.writes = <<r.replicas>>
                          /\ r.replicas = (IF r.action = "up" THEN hist.before + 1
                                           ELSE hist.before - 1)

C10_Witness ==
    \E p \in Procs :
        /\ Done(proc[p]) /\ OnWeb(proc[p]) /\ FlagIsTrue /\ MaxLabel = S_empty
        /\ proc[p].op = "can_autoscale" /\ proc[p].outcome = "True"
        /\ replicas = 3

(* C11: a call that ends in a denial (can_autoscale returning False,
   scale_service not allowed) has logged nothing at error severity. *)
C11_DenialNotLoggedAsError ==
    \A p \in Procs :
        (Done(proc[p]) /\ proc[p].outcome \in {"False", "denied"})
            => "error" \notin proc[p].logs

(* C12: whether scale_service with a non-zero target is permitted is decided
   by the labels and the replica count at the call alone: when the policy
   permits, the update is issued with the requested target whatever it is
   (also above the maximum), otherwise the call is denied whatever the
   target. *)
C12_DecisionIgnoresTarget ==
    \A p \in Procs :
        LET r == proc[p]
        IN (Done(r) /\ r.op = "scale_service" /\ OnWeb(r) /\ r.replicas # 0
              /\ ~BadMaximum)
              => IF PolicyPermits(hist.before)
                 THEN r.writes = <<r.replicas>> /\ r.outcome \in {"scaled", ErrAPI}
                 ELSE r.writes = <<>> /\ r.outcome = "denied"

C12_Witness ==
    \E p \in Procs :
        /\ Done(proc[p]) /\ proc[p].op = "scale_service" /\ OnWeb(proc[p])
        /\ FlagIsTrue /\ MaxLabel = S_2 /\ hist.before = 1
        /\ proc[p].replicas = 3 /\ proc[p].outcome = "scaled" /\ replicas = 3

Delta(action) == IF action = "up" THEN 1 ELSE 0 - 1

IntMaximum == FlagIsTrue /\ ~MaxAbsentOrEmpty /\ int_ok(MaxLabel)

(* C13: a scale_service_linear call that succeeds has written the count it
   read plus or minus one, whatever the count was at the time of the write;
   so two interleaved "up" calls can both succeed and leave c + 1. *)
C13_WritesStaleRead ==
    \A p \in Procs :
        LET r == proc[p]
        IN (Done(r) /\ r.op = "scale_service_linear" /\ r.outcome = "scaled")
              => r.writes = <<r.current_replicas + Delta(r.action)>>

(* the lost update *)
C13_Witness ==
    /\ \A p \in Procs :
          /\ Done(proc[p]) /\ proc[p].op = "scale_service_linear"
          /\ proc[p].action = "up" /\ proc[p].outcome = "scaled"
          /\ proc[p].current_replicas = hist.before
    /\ replicas = hist.before + 1

(* C14: with the labels enabled and an integer maximum m, an initial count
   c0 <= m and scale_service_linear calls made one at a time, the replica
   count never exceeds m. *)
C14_SequentialStepsStayBelowMax ==
    (IntMaximum /\ hist.before <= int_val(MaxLabel)) => replicas <= int_val(MaxLabel)

C14_Witness ==
    \E p \in Procs :
        /\ FlagIsTrue /\ MaxLabel = S_2 /\ hist.before = 0 /\ replicas = 2
        /\ Done(proc[p]) /\ proc[p].action = "up" /\ proc[p].outcome = "denied"

(* C15 as stated: the same bound under every interleaving of the reads,
   checks and writes of concurrent scale_service_linear calls. *)
C15_Original ==
    ~(IntMaximum /\ hist.before <= int_val(MaxLabel) /\ replicas > int_val(MaxLabel))

(* C15 amended: the bound holds under the interleavings in which no call's
   update takes effect between another call's read of the replica count and
   that call's end. *)
C15_BoundWithoutRace ==
    (IntMaximum /\ hist.before <= int_val(MaxLabel) /\ ~hist.raced)
        => replicas <= int_val(MaxLabel)

C15_Witness ==
    /\ ~hist.raced /\ FlagIsTrue /\ MaxLabel = S_2 /\ hist.before = 0 /\ replicas = 2
    /\ \A p \in Procs :
          /\ Done(proc[p]) /\ proc[p].action = "up" /\ proc[p].outcome = "scaled"

AtCeiling == IntMaximum /\ hist.before >= int_val(MaxLabel)

WellFormed(r) ==
    /\ Done(r) /\ IsScale(r) /\ OnWeb(r)
    /\ r.op = "scale_service_linear" => r.action \in {"up", "down"}

(* C16 as stated: while the labels are enabled with an integer maximum m and
   the count is >= m, every scale_service and scale_service_linear call on
   the service is denied and the count does not change. *)
C16_Original ==
    \A p \in Procs :
        (AtCeiling /\ WellFormed(proc[p]))
            => (proc[p].outcome = "denied" /\ replicas = hist.before)

(* C16 amended: in that state no call issues an update or changes the count;
   every call whose target (given or computed) is non-zero is denied, and a
   zero target is rejected as invalid input instead. *)
C16_CeilingIsPermanent ==
    \A p \in Procs :
        LET r == proc[p]
        IN (AtCeiling /\ r.op # "none")
              => /\ replicas = hist.before
                 /\ r.writes = <<>>
                 /\ (WellFormed(r) /\ r.replicas # 0) => r.outcome = "denied"
                 /\ (WellFormed(r) /\ r.replicas = 0) => r.outcome = ErrNoReplicas

C16_Witness ==
    \E p \in Procs :
        /\ AtCeiling /\ MaxLabel = S_2 /\ hist.before = 3
        /\ WellFormed(proc[p]) /\ proc[p].op = "scale_service"
        /\ proc[p].replicas = 1 /\ proc[p].outcome = "denied"
        /\ hist.prev.outcome = "denied" /\ hist.prev.action = "down"

(* C17: from an initial count >= 1, no sequence or interleaving of
   scale_service_linear calls brings the replica count to 0 or below. *)
C17_StepsNeverReachZero ==
    hist.before >= 1 => replicas >= 1

C17_Witness ==
    \E p \in Procs :
        /\ hist.before >= 1 /\ replicas = 1
        /\ Done(proc[p]) /\ proc[p].op = "scale_service_linear"
        /\ proc[p].action = "down" /\ proc[p].current_replicas = 1
        /\ proc[p].outcome = ErrNoReplicas /\ proc[p].writes = <<>>

====
